---- MODULE Spec2Model ----
(***************************************************************************)
(* Model of the Awakener activation engine: the process manager            *)
(* (server/manager.py), the activation loop (activator/loop.py), one       *)
(* round of the tool loop (activator/agent.py) and the timeline/notebook   *)
(* files (activator/memory.py).                                            *)
(*                                                                         *)
(* Threads and interleaving.  The control operations start/stop/restart    *)
(* are coroutines of the single asyncio event loop; the activation loop    *)
(* runs in a daemon thread.  A coroutine runs without interruption by      *)
(* other coroutines up to its next await, but the worker thread can run    *)
(* between any two of its statements, so stop() is two steps: the read of  *)
(* is_running and the writes that follow it.                               *)
(*                                                                         *)
(* Calls between files are modelled by the callee's body.  loop.py reads   *)
(* result.notebook_saved, which the RoundResult of agent.py does not       *)
(* carry any more (notebook variant of the loop); the flag is an input of  *)
(* the Record step.                                                        *)
(***************************************************************************)
EXTENDS Integers, Sequences, FiniteSets, TLC

\* ---- bounds of the model ------------------------------------------------
MaxThreads == 2        \* worker threads ever created (successful starts)
MaxRound == 2          \* highest round number a worker may begin
MaxCallsPerTurn == 3   \* most tool calls the LLM puts in one assistant turn
NormalLimit == 2       \* agent.max_tool_calls of the config under test
MaxTokens == 2         \* most tokens after the program name of a shell command
MaxLines == 2          \* most lines a shell command prints
MaxEntries == 1        \* most entries of a list section of the snapshot before a merge
MaxAdd == 2            \* most entries of the add block of a delta
MaxSends == 2          \* inspirations the operator sends
MaxSockets == 2        \* WebSocket connections the server accepts
MaxEvents == 5         \* events the logger hands to _broadcast

\* ---- program constants --------------------------------------------------
HardLimit == NormalLimit + 3          \* agent.py:414
Intervals == {0, 60}                  \* agent.interval: 0 or the default 60

Threads == 1..MaxThreads

VARIABLES
    state,               \* AgentManager.state
    current_round,       \* AgentManager.current_round
    total_rounds,        \* AgentManager.total_rounds
    last_round_tools,    \* AgentManager.last_round_tools
    last_round_summary,  \* AgentManager.last_round_summary ("", "summary", "fatal")
    stop_event,          \* AgentManager._stop_event (threading.Event)
    thread,              \* AgentManager._thread: id of the latest thread, 0 = None
    workers,             \* thread id -> locals of _run_activator / run_activation_loop / run_round
    evpc,                \* coroutine the event loop is inside: "none", "stop", "restart"
    ev_running,          \* value of is_running read by that coroutine
    pending_restart,     \* restart() coroutines suspended in `await self.stop()`
    last_error,          \* outcome of the latest start(): "none" or the RuntimeError raised
    timeline,            \* data/timeline/*.jsonl: sequence of entries
    notebook,            \* data/notebook/*.jsonl: set of round numbers with a note
    ended,               \* history: round numbers whose round reached the timeline append
    appended,            \* history: round numbers whose timeline append succeeded
    sandbox,             \* the file system as the agent's tools see it, and the
                         \* latest tool call made on it with its result
    store,               \* the data directory beside the timeline: snapshot.yaml,
                         \* feed.jsonl, inspiration.txt, and the merge being made
    hub,                 \* WebSocketManager.active_connections, the broadcasts on the
                         \* event loop, what each socket received, the round events
    env                  \* the surroundings of this behaviour: the LLM's largest batch
                         \* of tool calls per turn, the kinds of argument strings it
                         \* produces, the number of turns of a round in which it asks
                         \* for tools, and the outcomes a write to the data files has

vars == <<state, current_round, total_rounds, last_round_tools, last_round_summary,
          stop_event, thread, workers, evpc, ev_running, pending_restart, last_error,
          timeline, notebook, ended, appended, sandbox, store, hub, env>>

runstate == <<state, current_round, total_rounds, last_round_tools, last_round_summary>>
files == <<timeline, notebook, ended, appended, sandbox, store, hub, env>>
evloop == <<evpc, ev_running, pending_restart>>

\* ---- helpers ------------------------------------------------------------
Max2(a, b) == IF a >= b THEN a ELSE b

SetMax(S) == IF S = {} THEN 0 ELSE CHOOSE m \in S : \A x \in S : x <= m

\* ---- messages of a round (agent.py) -------------------------------------
NoText == [text |-> "", used |-> 0]

Text(t, n) == [text |-> t, used |-> n]

Msg(role, calls, id, hint, result) ==
    [role |-> role, calls |-> calls, id |-> id, hint |-> hint, result |-> result]

AssistantMsg(calls) == Msg("assistant", calls, 0, NoText, NoText)
\* content of a tool message is f"{hint}\n\n{result}", or the result alone
ToolMsg(id, hint, result) == Msg("tool", <<>>, id, hint, result)

\* _budget_hint(used, normal_limit): the four bands, the text names the used count
budget_hint(used, normal_limit) ==
    LET remaining == normal_limit - used IN
    IF used >= normal_limit THEN Text("exhausted", used)
    ELSE IF remaining <= 3 THEN Text("warn", used)
    ELSE IF remaining <= 8 THEN Text("wrapup", used)
    ELSE Text("ample", used)

\* the budget-enforcement result of run_round: the same sentence as the
\* exhausted band of _budget_hint, formatted with the count before this call
ExhaustedResult(total) == Text("exhausted", total)

ToolCount(msgs) == Cardinality({i \in 1..Len(msgs) : msgs[i].role = "tool"})

\* ---- stealth.py / tools.py: paths and the project root --------------------
\* A path is the sequence of its components below "/"; ".." is the parent.
\* the Awakener project root (project_dir)
ProjectRoot == <<"opt", "app">>

NoSandbox == [link |-> [set |-> FALSE, target |-> <<>>], files |-> {}, touched |-> {},
              last |-> [tool |-> "none", path |-> <<>>,
                       result |-> [kind |-> "none", path |-> <<>>]],
              server_port |-> 0,
              shell |-> [called |-> FALSE, command |-> <<>>, ran |-> FALSE, raw |-> <<>>,
                         result |-> [kind |-> "none", path |-> <<>>, lines |-> <<>>]]]

IsPrefix(a, b) == Len(a) <= Len(b) /\ SubSeq(b, 1, Len(a)) = a

Parent(p) == IF p = <<>> THEN <<>> ELSE SubSeq(p, 1, Len(p) - 1)

\* os.path.abspath of an absolute path: normpath, ".." collapsed by string
\* manipulation, symbolic links not looked at
RECURSIVE normpath(_, _)
normpath(p, acc) ==
    IF p = <<>> THEN acc
    ELSE IF Head(p) = ".." THEN normpath(Tail(p), Parent(acc))
    ELSE normpath(Tail(p), Append(acc, Head(p)))

\* the file the operating system reaches for a path (also os.path.realpath):
\* components from left to right, a symbolic link replaced by its target,
\* ".." taken from the directory reached so far
RECURSIVE realpath(_, _)
realpath(p, acc) ==
    IF p = <<>> THEN acc
    ELSE IF Head(p) = ".." THEN realpath(Tail(p), Parent(acc))
    ELSE IF sandbox.link.set /\ Append(acc, Head(p)) = <<"ln">>
         THEN realpath(Tail(p), sandbox.link.target)
    ELSE realpath(Tail(p), Append(acc, Head(p)))

\* the project root or a path inside it
InProject(real) == IsPrefix(ProjectRoot, real)

\* stealth.is_cloaked_path(path, project_dir)
is_cloaked_path(path) == InProject(realpath(normpath(path, <<>>), <<>>))

\* CLOAKED_READ_RESPONSE and the FileNotFoundError text of _read_file
NotFound(path) == [kind |-> "file_not_found", path |-> path]

\* CLOAKED_WRITE_RESPONSE, the text of a PermissionError
Denied(path) == [kind |-> "permission_denied", path |-> path]

\* directories of the machine
Dirs == {<<>>, <<"opt">>, <<"opt", "app">>, <<"home">>}

\* tools._read_file(path, project_dir)
read_file(path) ==
    LET real == realpath(path, <<>>) IN
    IF is_cloaked_path(path) THEN NotFound(path)
    ELSE IF real \in sandbox.files THEN [kind |-> "content", path |-> real]
    ELSE IF real \in Dirs THEN [kind |-> "is_a_directory", path |-> path]
    ELSE NotFound(path)

\* tools._write_file(path, content, append, project_dir)
write_file(path) ==
    LET real == realpath(path, <<>>) IN
    IF is_cloaked_path(path) THEN Denied(path)
    ELSE IF real \in Dirs THEN [kind |-> "is_a_directory", path |-> path]
    ELSE [kind |-> "ok_wrote", path |-> path]

\* tools._edit_file(path, old_str, new_str, project_dir), old_str matching once
edit_file(path) ==
    LET real == realpath(path, <<>>) IN
    IF is_cloaked_path(path) THEN Denied(path)
    ELSE IF real \in sandbox.files THEN [kind |-> "ok_replaced", path |-> path]
    ELSE NotFound(path)

\* paths the LLM passes to the file tools
ToolPaths ==
    {<<"opt", "app">>, <<"opt", "app", "f">>, <<"opt", "app", "..", "app", "f">>,
     <<"opt", "f">>, <<"home", "f">>, <<"home", "..", "opt", "app", "f">>,
     <<"ln", "f">>, <<"ln", "..", "f">>, <<"ln", "..", "app", "f">>}

\* targets of the agent's symbolic link
LinkTargets == {<<"opt", "app">>, <<"opt">>, <<"home">>}

\* ToolExecutor.execute("read_file", {"path": path})
ReadFile(path) ==
    LET res == read_file(path) IN
    /\ sandbox' = [sandbox EXCEPT
           !.last = [tool |-> "read_file", path |-> path, result |-> res],
           !.touched = IF res.kind = "content" THEN @ \cup {res.path} ELSE @]
    /\ UNCHANGED <<runstate, stop_event, thread, workers, evloop, last_error,
                   timeline, notebook, ended, appended, store, hub, env>>

\* ToolExecutor.execute("write_file", {"path": path, "content": ...})
WriteFile(path) ==
    LET res == write_file(path)
        real == realpath(path, <<>>)
    IN
    /\ sandbox' = [sandbox EXCEPT
           !.last = [tool |-> "write_file", path |-> path, result |-> res],
           !.files = IF res.kind = "ok_wrote" THEN @ \cup {real} ELSE @,
           !.touched = IF res.kind = "ok_wrote" THEN @ \cup {real} ELSE @]
    /\ UNCHANGED <<runstate, stop_event, thread, workers, evloop, last_error,
                   timeline, notebook, ended, appended, store, hub, env>>

\* ToolExecutor.execute("edit_file", {"path": path, "old_str": ..., "new_str": ...})
EditFile(path) ==
    LET res == edit_file(path)
        real == realpath(path, <<>>)
    IN
    /\ sandbox' = [sandbox EXCEPT
           !.last = [tool |-> "edit_file", path |-> path, result |-> res],
           !.touched = IF res.kind = "ok_replaced" THEN @ \cup {real} ELSE @]
    /\ UNCHANGED <<runstate, stop_event, thread, workers, evloop, last_error,
                   timeline, notebook, ended, appended, store, hub, env>>

\* ---- tools._shell_execute and its stealth layers -------------------------
\* the port of the management server
ManagementPort == 8080

\* A token of a command as shlex.split gives it: an absolute path (its text
\* starts with "/", trailing ; , | & already stripped), a host:port
\* reference, or any other word (host = "", abs = FALSE).
PathToken(p) == [abs |-> TRUE, path |-> p, host |-> "", port |-> 0]
PortToken(h, n) == [abs |-> FALSE, path |-> <<>>, host |-> h, port |-> n]

\* a command: the tokens the LLM puts after the program name
Commands ==
    LET Tokens ==
          {PathToken(<<"opt">>), PathToken(<<"opt", "app", "f">>),
           PathToken(<<"ln", "..", "app", "f">>), PathToken(<<"ln", "..">>),
           PortToken("localhost", ManagementPort), PortToken("0.0.0.0", ManagementPort),
           PortToken("localhost", 80),
           [abs |-> FALSE, path |-> <<"app", "f">>, host |-> "", port |-> 0]}
    IN UNION {[1..n -> Tokens] : n \in 1..MaxTokens}

\* A line of output: its last whitespace-separated token is the path `name`
\* (abs: the token starts with "/"), cols tells whether other columns stand
\* before it (ls -la), kw whether the line holds the PID, port or session
\* keyword.
Line(cols, name, abs, kw) == [cols |-> cols, name |-> name, abs |-> abs, kw |-> kw]

\* what a command prints (stdout + stderr), not blank, within max_output
Outputs ==
    LET OutputLines ==
          {Line(FALSE, <<"app">>, FALSE, FALSE), Line(FALSE, <<"shared">>, FALSE, FALSE),
           Line(TRUE, <<"app">>, FALSE, FALSE), Line(FALSE, <<"ln", "f">>, TRUE, FALSE),
           Line(FALSE, <<"opt", "app", "f">>, TRUE, FALSE),
           Line(FALSE, <<"logs">>, FALSE, TRUE)}
    IN UNION {[1..n -> OutputLines] : n \in 1..MaxLines}

RECURSIVE SelectPaths(_)
SelectPaths(tokens) ==
    IF tokens = <<>> THEN <<>>
    ELSE IF Head(tokens).abs THEN <<Head(tokens).path>> \o SelectPaths(Tail(tokens))
    ELSE SelectPaths(Tail(tokens))

\* stealth.extract_command_paths(command)
extract_command_paths(command) == SelectPaths(command)

\* the "curl: (7) Failed to connect ..." text of Layer 1b
ConnectionRefused == [kind |-> "connection_refused", path |-> <<>>, lines |-> <<>>]

\* _port_pattern.search(command): host:PORT with a local host
port_pattern_search(command) ==
    \E i \in 1..Len(command) :
       /\ command[i].host \in {"localhost", "127.0.0.1", "0.0.0.0"}
       /\ command[i].port = sandbox.server_port

\* os.path.join(dir_path, name): an absolute second argument replaces the first
join(dir_path, name, abs) == IF abs THEN name ELSE dir_path \o name

\* the candidates of _line_exposes_cloaked: the stripped line and its last
\* token; columns before the name make the stripped line a relative text
\* whose first component is no name of the machine
Candidates(line) ==
    {IF line.cols
     THEN [abs |-> FALSE,
           name |-> <<"cols">> \o (IF line.abs THEN line.name ELSE Tail(line.name))]
     ELSE [abs |-> line.abs, name |-> line.name],
     [abs |-> line.abs, name |-> line.name]}

\* stealth._line_exposes_cloaked(line, dir_paths, project_dir)
line_exposes_cloaked(line, dir_paths) ==
    \E c \in Candidates(line) :
       /\ ~c.abs
       /\ \E i \in 1..Len(dir_paths) : is_cloaked_path(join(dir_paths[i], c.name, FALSE))

\* stealth.filter_cloaked_output(output, command_paths, project_dir)
filter_cloaked_output(output, command_paths) ==
    IF output = <<>> \/ command_paths = <<>> THEN output
    ELSE SelectSeq(output, LAMBDA line : ~line_exposes_cloaked(line, command_paths))

\* stealth.filter_output(output, keywords): a line holds a stealth keyword
\* when it holds the text of the project directory, or the PID, port or
\* session keyword
filter_output(output) ==
    SelectSeq(output, LAMBDA line :
                 ~(line.kw \/ (line.abs /\ IsPrefix(ProjectRoot, line.name))))

\* tools._shell_execute(command, ...) with the command printing raw
shell_execute(command, raw) ==
    LET cmd_paths == extract_command_paths(command)
        cloaked == {i \in 1..Len(cmd_paths) : is_cloaked_path(cmd_paths[i])}
        first == CHOOSE i \in cloaked : \A j \in cloaked : i <= j
    IN
    IF cloaked /= {}
    THEN [ran |-> FALSE, result |-> [kind |-> "no_such_file", path |-> cmd_paths[first],
                                 lines |-> <<>>]]
    ELSE IF sandbox.server_port /= 0 /\ port_pattern_search(command)
    THEN [ran |-> FALSE, result |-> ConnectionRefused]
    ELSE [ran |-> TRUE,
          result |-> [kind |-> "output", path |-> <<>>,
                      lines |-> filter_output(filter_cloaked_output(raw, cmd_paths))]]

\* ToolExecutor.execute("shell_execute", {"command": command}) for the command
\* the LLM has chosen; raw is what that command prints when it is run
ShellExecute ==
    LET r == shell_execute(sandbox.shell.command, sandbox.shell.raw) IN
    /\ ~sandbox.shell.called
    /\ sandbox' = [sandbox EXCEPT
           !.shell.called = TRUE, !.shell.ran = r.ran, !.shell.result = r.result]
    /\ UNCHANGED <<runstate, stop_event, thread, workers, evloop, last_error,
                   timeline, notebook, ended, appended, store, hub, env>>

\* ---- snapshot.py: the snapshot and the merge of a delta ------------------
\* An entry of a list section: the value of the section's key field
\* (_SECTION_KEYS: name, path or summary) and its status field.
SectionKeys == {"a", "b"}
Entries == {[key |-> "a", status |-> "open"], [key |-> "a", status |-> "resolved"],
            [key |-> "b", status |-> "open"]}

\* lists of at most n entries, lists of at most n key values
Lists(n) == UNION {[1..k -> Entries] : k \in 0..n}

\* the list sections of the model: one that is not cleaned up, and issues
Sections == {"services", "issues"}

\* load_snapshot of a missing file, and the first stamp of a snapshot
EmptySnapshot ==
    [meta |-> [round |-> 0, last_updated |-> "never"], services |-> <<>>,
     issues |-> <<>>, environment |-> "none"]

\* a delta of the LLM that touches one list section and the environment
Deltas ==
    [no_changes : BOOLEAN, section : Sections, add : Lists(MaxAdd),
     update : Lists(1), remove : UNION {[1..k -> SectionKeys] : k \in 0..1}, environment : {"none", "new"}]

KeysOf(entries) == {entries[i].key : i \in 1..Len(entries)}

\* _merge_delta, ADD: an entry is appended unless its key is in existing_keys
is_duplicate_never(entry, entries) == FALSE
is_duplicate(entry, entries) == entry.key \in KeysOf(entries)

RECURSIVE add_entries(_, _)
add_entries(entries, new_entries) ==
    IF new_entries = <<>> THEN entries
    ELSE IF is_duplicate(Head(new_entries), entries)
         THEN add_entries(entries, Tail(new_entries))
    ELSE add_entries(Append(entries, Head(new_entries)), Tail(new_entries))

\* _merge_delta, UPDATE of a list section
RECURSIVE update_entries(_, _)
update_entries(entries, updates) ==
    IF updates = <<>> THEN entries
    ELSE IF Head(updates).key \in KeysOf(entries)
         THEN update_entries(
                 [entries EXCEPT ![CHOOSE i \in 1..Len(entries) :
                                      /\ entries[i].key = Head(updates).key
                                      /\ \A j \in 1..(i - 1) :
                                            entries[j].key /= Head(updates).key]
                                  = Head(updates)],
                 Tail(updates))
    ELSE update_entries(entries, Tail(updates))

\* the meta block every merge writes
Stamp_next(snapshot, round_num) ==
    [snapshot EXCEPT !.meta = [round |-> round_num + 1, last_updated |-> "now"]]
Stamp(snapshot, round_num) ==
    [snapshot EXCEPT !.meta = [round |-> round_num, last_updated |-> "now"]]

\* the snapshot after the ADD block of the delta
AfterAdd(snapshot, delta) ==
    [snapshot EXCEPT ![delta.section] = add_entries(@, delta.add)]

\* the snapshot after the UPDATE, REMOVE and AUTO-CLEANUP steps that follow
AfterRest(snapshot, delta) ==
    LET updated == [snapshot EXCEPT
                       ![delta.section] = update_entries(@, delta.update),
                       !.environment = IF delta.environment = "none" THEN @
                                       ELSE delta.environment]
        removals == {delta.remove[i] : i \in 1..Len(delta.remove)}
        removed == [updated EXCEPT
                       ![delta.section] = SelectSeq(@, LAMBDA e : e.key \notin removals)]
    IN [removed EXCEPT !.issues = SelectSeq(@, LAMBDA e : e.status /= "resolved")]

\* the short-circuit of _merge_delta: delta.get("no_changes")
short_circuit_never(delta) == FALSE
short_circuit(delta) == delta.no_changes

\* snapshot._merge_delta(old_snapshot, delta, round_num)
merge_delta(old_snapshot, delta, round_num) ==
    LET snapshot == Stamp(old_snapshot, round_num) IN
    IF short_circuit(delta) THEN snapshot
    ELSE AfterRest(AfterAdd(snapshot, delta), delta)

\* data/ before the first snapshot update: no snapshot.yaml, no feed.jsonl, no
\* reader has asked for the snapshot; no inspiration.txt (inspiration is the
\* number of the send whose text the file holds, 0 for no file), no send, and
\* the history of the texts handed to a round
NoStore == [merge |-> [done |-> FALSE, old |-> EmptySnapshot, delta |-> <<>>,
                       round_num |-> 0, after_add |-> EmptySnapshot,
                       merged |-> EmptySnapshot],
            snapshot |-> EmptySnapshot,
            update |-> [pc |-> "idle", models |-> 0, i |-> 0, activity |-> "none",
                        saves |-> 0, posts |-> 0],
            file |-> "none", pre |-> "none", feed |-> <<>>, seen |-> "nothing",
            inspiration |-> 0, sends |-> 0, delivered |-> <<>>,
            delete |-> [pc |-> "idle", round_num |-> 0, lines |-> <<>>, named |-> {}],
            log |-> "none"]  \* the lines the logger wrote last to the day's log
                             \* file: none, the [START] lines, lines of a round,
                             \* the [STOP] line
\* loop.py:140 and 161-167: the round events the logger hands to _broadcast
RoundEvent(event, round_num) == [event |-> event, round |-> round_num]

\* ---- server/websocket.py: the subscribers of the event stream --------------
Sockets == 1..MaxSockets

Kind(e) == <<"tool_call", "loading", "tool_result", "thought_chunk">>[((e - 1) % 4) + 1]
CallOf(e) == ((e - 1) \div 4) + 1
\* loop.py:202: thought_chunk is the one event broadcast with wait=False
Waits(e) == Kind(e) /= "thought_chunk"

NoHub == [active_connections |-> {}, log |-> <<>>,
          status |-> [s \in Sockets |-> "new"],
          joined |-> [s \in Sockets |-> 0],
          received |-> [s \in Sockets |-> <<>>],
          failed |-> [s \in Sockets |-> 0],
          tasks |-> <<>>, emitted |-> 0, waiting |-> 0, left |-> {}]

\* everything but the WebSocketManager
beside_manager == <<runstate, stop_event, thread, workers, evloop, last_error,
                    timeline, notebook, ended, appended, sandbox, store, env>>

\* `for ws in self.active_connections`: the iterator of a set raises once
\* the set's size is not the size it had when the iterator was made, else
\* it yields the next socket behind the one it yielded last
Behind(active, last) == {s \in active : s > last}
NextSocket(active, last) ==
    CHOOSE s \in Behind(active, last) : \A x \in Behind(active, last) : s <= x

\* ActivatorLogger._broadcast up to future.result: the coroutine is handed
\* to the event loop, where it runs to its first send_text
Broadcast ==
    /\ hub.waiting = 0
    /\ hub.emitted < MaxEvents
    /\ LET e == hub.emitted + 1
           active == hub.active_connections
           coroutine == IF active = {} THEN <<>>
                        ELSE <<[event |-> e, target |-> NextSocket(active, 0),
                                size |-> Cardinality(active), disconnected |-> {}]>>
       IN hub' = [hub EXCEPT !.emitted = e,
                             !.tasks = @ \o coroutine,
                             !.waiting = IF Waits(e) /\ coroutine /= <<>> THEN e ELSE 0]
    /\ UNCHANGED beside_manager

\* future.result(timeout=5) returns, or raises what the coroutine raised
BroadcastReturn ==
    /\ hub.waiting /= 0
    /\ \A i \in DOMAIN hub.tasks : hub.tasks[i].event /= hub.waiting
    /\ hub' = [hub EXCEPT !.waiting = 0]
    /\ UNCHANGED beside_manager

\* future.result(timeout=5) raises TimeoutError, which `except Exception:
\* pass` drops; the coroutine stays on the event loop
BroadcastTimeout ==
    /\ hub.waiting /= 0
    /\ \E i \in DOMAIN hub.tasks : hub.tasks[i].event = hub.waiting
    /\ hub' = [hub EXCEPT !.waiting = 0]
    /\ UNCHANGED beside_manager

\* one `await ws.send_text(payload)` of a broadcast comes back, sent or
\* raised, and the loop goes on to its next await or to its end; a socket
\* sends in the order send_text was called on it
SendText(i) ==
    LET task == hub.tasks[i]
        ws == task.target
        sent == hub.status[ws] = "open"
        disconnected == IF sent THEN task.disconnected ELSE task.disconnected \cup {ws}
        active == hub.active_connections
        step == IF Cardinality(active) /= task.size THEN "RuntimeError"
                ELSE IF Behind(active, ws) = {} THEN "StopIteration"
                ELSE "next"
    IN /\ \A j \in 1..(i - 1) : hub.tasks[j].target /= ws
       /\ hub' = [hub EXCEPT
              !.received[ws] = IF sent THEN Append(@, task.event) ELSE @,
              !.failed[ws] = IF sent \/ @ /= 0 THEN @ ELSE Len(hub.received[ws]) + 1,
              !.tasks = IF step = "next"
                        THEN [@ EXCEPT ![i] = [task EXCEPT
                                  !.target = NextSocket(active, ws),
                                  !.disconnected = disconnected]]
                        ELSE SubSeq(@, 1, i - 1) \o SubSeq(@, i + 1, Len(@)),
              !.active_connections = IF step = "StopIteration"
                                     THEN @ \ disconnected ELSE @,
              !.left = IF step = "RuntimeError"
                       THEN @ \cup (disconnected \cap active) ELSE @]
       /\ UNCHANGED beside_manager

\* WebSocketManager.connect, called once for a socket by the /ws endpoint
Connect(ws) ==
    /\ hub.status[ws] = "new"
    /\ hub' = [hub EXCEPT !.status[ws] = "open",
                          !.active_connections = @ \cup {ws},
                          !.joined[ws] = hub.emitted]
    /\ UNCHANGED beside_manager

\* the client goes away: from now on send_text raises
Break(ws) ==
    /\ hub.status[ws] = "open"
    /\ hub' = [hub EXCEPT !.status[ws] = "closed"]
    /\ UNCHANGED beside_manager

\* WebSocketManager.disconnect, called by the /ws endpoint when
\* receive_text raises WebSocketDisconnect
Disconnect(ws) ==
    /\ hub.status[ws] = "closed"
    /\ ws \in hub.active_connections
    /\ hub' = [hub EXCEPT !.active_connections = @ \ {ws}]
    /\ UNCHANGED beside_manager

\* _merge_delta applied to the snapshot and the delta at hand
MergeDelta ==
    LET m == store.merge IN
    /\ ~m.done
    /\ m.round_num > 0
    /\ store' = [store EXCEPT
          !.merge.done = TRUE,
          !.merge.after_add = IF short_circuit(m.delta) THEN Stamp(m.old, m.round_num)
                              ELSE AfterAdd(Stamp(m.old, m.round_num), m.delta),
          !.merge.merged = merge_delta(m.old, m.delta, m.round_num)]
    /\ UNCHANGED <<runstate, stop_event, thread, workers, evloop, last_error,
                   timeline, notebook, ended, appended, sandbox, hub, env>>

\* ---- snapshot.py: update_snapshot step by step, and a reader --------------

\* load_snapshot(data_dir): {} for a missing, empty or unparsable file; the
\* mapping a first part of the document parses to, when it parses
load_snapshot(file, parses) ==
    CASE file = "none" -> "{}"
      [] file = "empty" -> "{}"
      [] file = "partial" -> IF parses THEN "part of new" ELSE "{}"
      [] OTHER -> file

SetU(u) == store' = [store EXCEPT !.update = u]

\* everything but the data directory
beside_store == <<runstate, stop_event, thread, workers, evloop, last_error,
                  timeline, notebook, ended, appended, sandbox, hub, env>>

\* update_snapshot lines 750-759: load the old snapshot, choose the models
UpdateBegin ==
    /\ store.update.pc = "begin"
    /\ SetU([store.update EXCEPT !.pc = "try", !.i = 1])
    /\ UNCHANGED beside_store

\* lines 761-792: the completion of model i and the parse of its answer; an
\* exception or an invalid delta goes to the except clause
UpdateCompletion ==
    /\ store.update.pc = "try"
    /\ \/ SetU([store.update EXCEPT !.pc = "failed"])
       \/ \E activity \in {"none", "good", "content_list", "tag_number"} :
             SetU([store.update EXCEPT !.pc = "save", !.activity = activity])
    /\ UNCHANGED beside_store

\* save_snapshot line 85: open(path, "w") truncates the file
SaveOpen ==
    /\ store.update.pc = "save"
    /\ store' = [store EXCEPT !.update.pc = "dump", !.update.saves = @ + 1,
                              !.file = "empty"]
    /\ UNCHANGED beside_store

\* save_snapshot lines 86-93: yaml.dump writes to the stream; the buffer
\* reaches the file in one piece at close, or in parts when it fills before
SaveDump ==
    /\ store.update.pc = "dump"
    /\ \/ store' = [store EXCEPT !.file = "partial"]
       \/ store' = [store EXCEPT !.update.pc = "feed", !.file = "new"]
    /\ UNCHANGED beside_store

\* _append_feed(data_dir, delta, round_num): no activity, no post; a content
\* that is not a string raises at content.strip(); else one line is appended
AppendFeed ==
    /\ store.update.pc = "feed"
    /\ CASE store.update.activity = "none" -> SetU([store.update EXCEPT !.pc = "log"])
         [] store.update.activity = "content_list" ->
               SetU([store.update EXCEPT !.pc = "failed"])
         [] OTHER ->
               store' = [store EXCEPT !.update.pc = "log", !.update.posts = @ + 1,
                                      !.feed = Append(@, store.update.i)]
    /\ UNCHANGED beside_store

\* update_snapshot lines 802-826: the log lines; ", ".join(tags) raises for a
\* tag that is not a string when a logger is given; else return new_snapshot
UpdateLog ==
    /\ store.update.pc = "log"
    /\ \E logger \in BOOLEAN :
          IF logger /\ store.update.activity = "tag_number"
          THEN SetU([store.update EXCEPT !.pc = "failed"])
          ELSE SetU([store.update EXCEPT !.pc = "returned"])
    /\ UNCHANGED beside_store

\* lines 828-839: except Exception: continue with the next model, or raise
\* SnapshotUpdateError after the last
UpdateExcept ==
    /\ store.update.pc = "failed"
    /\ IF store.update.i < store.update.models
       THEN SetU([store.update EXCEPT !.pc = "try", !.i = @ + 1])
       ELSE SetU([store.update EXCEPT !.pc = "raised"])
    /\ UNCHANGED beside_store

\* routes.get_snapshot: load_snapshot on the event loop, at any moment
GetSnapshot ==
    /\ \E parses \in BOOLEAN :
          store' = [store EXCEPT !.seen = load_snapshot(store.file, parses)]
    /\ UNCHANGED beside_store

\* ---- worker thread locals -----------------------------------------------
NoResult == [tools_used |-> 0, error |-> FALSE, set |-> FALSE]

FreshWorker ==
    [pc |-> "unstarted",
     interval |-> 0,          \* config["agent"]["interval"]
     round_num |-> 0,         \* run_activation_loop.round_num
     messages |-> <<>>,       \* the round's message list
     pending |-> <<>>,        \* tool calls of the current turn not yet dispatched
     total |-> 0,             \* run_round.total_tool_calls
     next_id |-> 1,           \* ids the LLM has handed out in this round
     tool_turns |-> 0,        \* turns of this round in which the LLM asked for tools
     llm_calls |-> 0,         \* history: litellm.completion calls of this round
     kinds |-> <<>>,          \* history: kind of the arguments of call id 1, 2, ...
     trace |-> <<>>,          \* history: what the dispatch of the latest call did, in order
     insp |-> 0,              \* read_inspiration.content: the text read, 0 for none
     snap_done |-> FALSE,     \* update_snapshot has returned for the current round
     snap_failed |-> FALSE,   \* history: update_snapshot raised SnapshotUpdateError
     sent |-> "none",         \* history: state in the status event of the finally block
     result |-> NoResult,     \* RoundResult returned by run_round
     executed |-> {},         \* history: call ids passed to tool_executor.execute
     used_rounds |-> <<>>,    \* history: round numbers this run has begun
     start_tl |-> 0,          \* history: highest timeline round when the loop started
     start_nb |-> 0,          \* history: highest notebook round when the loop started
     stop_at |-> "none",      \* history: where the worker was when stop() set the event
     ran_after_stop |-> FALSE,\* history: an LLM or tool call began with the event set
     crashed |-> FALSE]       \* history: an exception left run_activation_loop

Alive(t) == workers[t].pc \notin {"unstarted", "dead"}

\* threading.Thread.is_alive() of self._thread
ThreadAlive == thread /= 0 /\ Alive(thread)

\* AgentManager.is_running
is_running == state \in {"running", "waiting"}

\* ---- memory.py ----------------------------------------------------------
\* MemoryManager._get_last_timeline_round
get_last_timeline_round == SetMax({timeline[i].round : i \in 1..Len(timeline)})

\* a resume that looks at the timeline only
get_last_round_number_timeline == get_last_timeline_round

\* a resume that looks at the notebook only
get_last_round_number_notebook == SetMax(notebook)

\* MemoryManager.get_last_round_number
get_last_round_number == Max2(SetMax(notebook), get_last_timeline_round)

\* MemoryManager.append_timeline: the OSError of a failed open/write is swallowed
append_timeline(round_num, tools_used, ok) ==
    timeline' = IF ok THEN Append(timeline, [round |-> round_num, tools_used |-> tools_used])
                ELSE timeline

\* MemoryManager.write_notebook: the OSError of a failed open/write is swallowed
write_notebook(round_num, ok) ==
    notebook' = IF ok THEN notebook \cup {round_num} ELSE notebook

\* ---- manager.py ---------------------------------------------------------
\* AgentManager._state_callback(update)
state_callback(update) ==
    /\ state' = IF "state" \in DOMAIN update THEN update.state ELSE state
    /\ current_round' = IF "round" \in DOMAIN update THEN update.round ELSE current_round
    /\ last_round_tools' = IF "tools" \in DOMAIN update THEN update.tools ELSE last_round_tools
    /\ total_rounds' = IF "tools" \in DOMAIN update THEN total_rounds + 1 ELSE total_rounds
    /\ last_round_summary' = IF "summary" \in DOMAIN update THEN update.summary
                             ELSE last_round_summary

\* the part of start() after its two guards
StartBody(interval) ==
    /\ stop_event' = FALSE
    /\ state' = "running"
    /\ total_rounds' = 0
    /\ thread' = thread + 1
    /\ workers' = [t \in Threads |->
                      IF t = thread + 1
                      THEN [FreshWorker EXCEPT !.pc = "init", !.interval = interval]
                      ELSE IF workers[t].pc = "dead" THEN [FreshWorker EXCEPT !.pc = "dead"]
                      ELSE workers[t]]
    /\ last_error' = "none"
    /\ UNCHANGED <<current_round, last_round_tools, last_round_summary>>

\* start() without its guard on the old thread
StillFinishingNoCheck == FALSE

\* the guard of start() that looks at the old thread
StillFinishing == ThreadAlive

\* AgentManager.start(config), up to its await
start(interval) ==
    IF is_running
    THEN /\ last_error' = "AlreadyRunning"
         /\ UNCHANGED <<runstate, stop_event, thread, workers>>
    ELSE IF StillFinishing
    THEN /\ last_error' = "StillFinishing"
         /\ UNCHANGED <<runstate, stop_event, thread, workers>>
    ELSE StartBody(interval)

Start ==
    /\ evpc = "none"
    /\ thread < MaxThreads
    /\ \E interval \in Intervals : start(interval)
    /\ UNCHANGED <<evloop, files>>

\* stop(): `if not self.is_running`
StopCheck(who) ==
    /\ evpc = "none"
    /\ evpc' = who
    /\ ev_running' = is_running
    /\ UNCHANGED <<runstate, stop_event, thread, workers, pending_restart, last_error, files>>

\* stop(): the writes of the branch taken, up to the await / return
StopWrite ==
    /\ evpc \in {"stop", "restart"}
    /\ IF ev_running
       THEN /\ state' = "stopping"
            /\ stop_event' = TRUE
            /\ workers' = [t \in Threads |->
                  IF Alive(t) /\ workers[t].stop_at = "none"
                  THEN [workers[t] EXCEPT !.stop_at =
                          IF workers[t].pc \in {"llm", "tools"} THEN "round"
                          ELSE IF workers[t].pc = "sleep" THEN "sleep"
                          ELSE "between"]
                  ELSE workers[t]]
       ELSE /\ state' = "idle"
            /\ UNCHANGED <<stop_event, workers>>
    /\ evpc' = "none"
    /\ ev_running' = FALSE
    /\ pending_restart' = IF evpc = "restart" THEN pending_restart + 1 ELSE pending_restart
    /\ UNCHANGED <<current_round, total_rounds, last_round_tools, last_round_summary,
                   thread, last_error, files>>

Stop == StopCheck("stop")

\* restart(): `await self.stop()` ...
Restart ==
    /\ pending_restart = 0
    /\ thread < MaxThreads
    /\ StopCheck("restart")

\* ... then join(timeout=120), which returns when the thread has ended or
\* the timeout has passed, and start(config)
RestartResume ==
    /\ evpc = "none"
    /\ pending_restart > 0
    /\ thread < MaxThreads
    /\ pending_restart' = pending_restart - 1
    /\ \E interval \in Intervals : start(interval)
    /\ UNCHANGED <<evpc, ev_running, files>>

\* ---- loop.py: run_activation_loop in thread t ----------------------------
SetW(t, rec) == workers' = [workers EXCEPT ![t] = rec]

\* lines 318-332: MemoryManager, resume the round counter, the two [START]
\* lines of logger.info, first callback
LoopInit(t) ==
    /\ workers[t].pc = "init"
    /\ LET rn == get_last_round_number + 1 IN
       /\ SetW(t, [workers[t] EXCEPT !.pc = "while", !.round_num = rn,
                       !.start_tl = get_last_timeline_round, !.start_nb = SetMax(notebook)])
       /\ state_callback([state |-> "running", round |-> rn])
    /\ store' = [store EXCEPT !.log = "start"]
    /\ UNCHANGED <<stop_event, thread, evloop, last_error,
                   timeline, notebook, ended, appended, sandbox, hub, env>>

\* a loop that does not look at the event at the top of the loop
loop_continues_always == TRUE

\* line 335: the condition of `while not stop_event.is_set()`
loop_continues == ~stop_event

\* line 335: enter the next round or leave the loop
WhileCheck(t) ==
    /\ workers[t].pc = "while"
    /\ IF ~loop_continues
       THEN SetW(t, [workers[t] EXCEPT !.pc = "shutdown"])
       ELSE /\ workers[t].round_num <= MaxRound
            /\ SetW(t, [workers[t] EXCEPT !.pc = "round_start"])
    /\ UNCHANGED <<runstate, stop_event, thread, evloop, last_error, files>>

\* lines 336-362: round_start, callback, fresh message list and executor.
\* build_user_message calls read_inspiration (context.py:323): when
\* inspiration.txt exists and can be opened its text is read here and the
\* file is removed in the next step; else the user message has no inspiration
RoundStart(t) ==
    /\ workers[t].pc = "round_start"
    /\ \E opened \in (IF store.inspiration = 0 THEN {FALSE} ELSE env.disk) :
          SetW(t, [workers[t] EXCEPT !.pc = IF opened THEN "insp_remove" ELSE "llm",
                    !.insp = IF opened THEN store.inspiration ELSE 0,
                    !.messages = <<Msg("system", <<>>, 0, NoText, NoText),
                                   Msg("user", <<>>, 0, NoText, NoText)>>,
                    !.pending = <<>>, !.total = 0, !.next_id = 1, !.tool_turns = 0,
                    !.llm_calls = 0, !.kinds = <<>>, !.trace = <<>>, !.result = NoResult, !.executed = {},
                    !.used_rounds = Append(@, workers[t].round_num)])
    /\ state_callback([state |-> "running", round |-> workers[t].round_num])
    /\ LET at == {i \in DOMAIN hub.log : hub.log[i].event = "started"}
           since == IF at = {} THEN hub.log
                    ELSE SubSeq(hub.log, CHOOSE i \in at : \A j \in at : j <= i,
                                Len(hub.log))
       IN hub' = [hub EXCEPT !.log = Append(since,
                                            RoundEvent("started", workers[t].round_num))]
    /\ store' = [store EXCEPT !.log = "round"]
    /\ UNCHANGED <<stop_event, thread, evloop, last_error,
                   timeline, notebook, ended, appended, sandbox, env>>

\* a read that returns the text without removing the file
read_inspiration_keep(content, pending, removed) ==
    [returns |-> content, pending |-> pending]

\* memory.py:347-354: os.remove, then return content; the OSError of a
\* failed remove gives None and leaves the file
read_inspiration(content, pending, removed) ==
    IF removed THEN [returns |-> content, pending |-> 0]
    ELSE [returns |-> 0, pending |-> pending]

\* the rest of read_inspiration and of build_user_message
InspirationRemove(t) ==
    /\ workers[t].pc = "insp_remove"
    /\ \E removed \in env.disk :
          LET r == read_inspiration(workers[t].insp, store.inspiration, removed) IN
          store' = [store EXCEPT
                       !.inspiration = r.pending,
                       !.delivered = IF r.returns = 0 THEN @
                                     ELSE Append(@, [id |-> r.returns,
                                                     round |-> workers[t].round_num])]
    /\ SetW(t, [workers[t] EXCEPT !.pc = "llm", !.insp = 0])
    /\ UNCHANGED <<runstate, stop_event, thread, evloop, last_error,
                   timeline, notebook, ended, appended, sandbox, hub, env>>

\* AgentManager.send_inspiration / MemoryManager.write_inspiration: the file
\* is overwritten with the new text; False when the open fails
WriteInspiration ==
    /\ store.sends < MaxSends
    /\ \E ok \in env.disk :
          store' = [store EXCEPT !.sends = @ + 1,
                                 !.inspiration = IF ok THEN store.sends + 1 ELSE @]
    /\ UNCHANGED <<runstate, stop_event, thread, workers, evloop, last_error,
                   timeline, notebook, ended, appended, sandbox, hub, env>>

\* ---- agent.py: run_round in thread t ------------------------------------
\* a tool loop that also looks at the stop event before the next LLM call
round_continues_until_stop(total) == total < HardLimit /\ ~stop_event

\* a tool loop without the hard limit
round_continues_always(total) == TRUE

\* line 416: while total_tool_calls < hard_limit
round_continues(total) == total < HardLimit

\* a tool loop without budget enforcement
budget_exhausted_never(total) == FALSE

\* budget enforcement that starts one call late
budget_exhausted_late(total) == total > NormalLimit

\* line 536: if total_tool_calls >= normal_limit
budget_exhausted(total) == total >= NormalLimit

\* an error result that forgets the calls made so far
Returned_error_zero(w, err) ==
    [w EXCEPT !.pc = "round_ret", !.pending = <<>>,
              !.result = [tools_used |-> IF err THEN 0 ELSE w.total, error |-> err,
                          set |-> TRUE]]

\* return RoundResult(tools_used=total_tool_calls, ..., error=...)
Returned(w, err) ==
    [w EXCEPT !.pc = "round_ret", !.pending = <<>>,
              !.result = [tools_used |-> w.total, error |-> err, set |-> TRUE]]

\* lines 417-492: one LLM call and its stream; n tool calls come back, with
\* ids the LLM has not used before in this round
LLMCall(t) ==
    /\ workers[t].pc = "llm"
    /\ LET w == [workers[t] EXCEPT !.ran_after_stop = @ \/ stop_event,
                                   !.llm_calls = @ + 1] IN
       \/ SetW(t, Returned(w, TRUE))                          \* API or stream error
       \/ SetW(t, Returned([w EXCEPT !.messages = Append(@, AssistantMsg(<<>>))], FALSE))
       \/ \E n \in 1..env.batch :
             /\ w.tool_turns < env.turns
             /\
                LET ids == [i \in 1..n |-> w.next_id + i - 1] IN
                SetW(t, [w EXCEPT !.pc = "tools",
                               !.tool_turns = @ + 1,
                               !.messages = Append(@, AssistantMsg(ids)),
                               !.pending = ids,
                               !.next_id = @ + n])
    /\ UNCHANGED <<runstate, stop_event, thread, evloop, last_error, files>>

\* a for loop that is left as soon as the hard limit is reached
AfterCall_break(w) ==
    LET v == [w EXCEPT !.pending = Tail(@)] IN
    IF ~round_continues(v.total) THEN Returned(v, FALSE)
    ELSE IF v.pending /= <<>> THEN v
    ELSE [v EXCEPT !.pc = "llm"]

\* after one tool call of the for loop: next call, next LLM turn, or return
AfterCall(w) ==
    LET v == [w EXCEPT !.pending = Tail(@)] IN
    IF v.pending /= <<>> THEN v
    ELSE IF round_continues(v.total) THEN [v EXCEPT !.pc = "llm"]
    ELSE Returned(v, FALSE)

\* a parse-error message that does not name the call it answers
ParseErrorMsg_noid(id, total) ==
    ToolMsg(0, budget_hint(total + 1, NormalLimit), Text("parse_error", 0))

\* lines 510-530: the synthetic tool message for arguments that json.loads
\* and _repair_json both reject
ParseErrorMsg(id, total) ==
    ToolMsg(id, budget_hint(total + 1, NormalLimit), Text("parse_error", 0))

\* a dispatch that shows the loading indicator before the call
CallEvents_loading_first == <<"loading", "tool_call", "execute", "message", "tool_result">>

\* lines 532-570: logger.tool_call, logger.loading, tool_executor.execute,
\* messages.append, logger.tool_result
CallEvents == <<"tool_call", "loading", "execute", "message", "tool_result">>

\* lines 495-570: dispatch of the next tool call of the turn; a call that is
\* not executed has neither the loading event nor the executor
ToolCall(t) ==
    /\ workers[t].pc = "tools"
    /\ workers[t].pending /= <<>>
    /\ \E kind \in env.kinds :
         LET w == [workers[t] EXCEPT !.ran_after_stop = @ \/ stop_event,
                                     !.kinds = Append(@, kind)]
             id == Head(w.pending)
             skipped == SelectSeq(CallEvents, LAMBDA e : e \notin {"loading", "execute"})
         IN IF kind = "bad"
            THEN SetW(t, AfterCall([w EXCEPT
                      !.total = @ + 1, !.trace = skipped,
                      !.messages = Append(@, ParseErrorMsg(id, w.total))]))
            ELSE IF budget_exhausted(w.total)
            THEN SetW(t, AfterCall([w EXCEPT
                      !.total = @ + 1, !.trace = skipped,
                      !.messages = Append(@, ToolMsg(id, NoText, ExhaustedResult(w.total)))]))
            ELSE IF kind = "nondict"
            THEN SetW(t, [w EXCEPT !.pc = "except", !.crashed = TRUE,
                                   !.trace = SubSeq(CallEvents, 1, 3),
                                   !.executed = @ \cup {id}])
            ELSE SetW(t, AfterCall([w EXCEPT
                      !.executed = @ \cup {id}, !.trace = CallEvents,
                      !.total = @ + 1,
                      !.messages = Append(@, ToolMsg(id, budget_hint(w.total + 1, NormalLimit),
                                                     Text("result", 0)))]))
    /\ UNCHANGED <<runstate, stop_event, thread, evloop, last_error, files>>

\* ---- loop.py: after run_round --------------------------------------------
\* an append whose OSError is not caught and leaves the loop
AfterAppend_raises(w, tl_ok) ==
    IF tl_ok THEN [w EXCEPT !.pc = "round_end"]
    ELSE [w EXCEPT !.pc = "except", !.crashed = TRUE]

\* routes.delete_round -> MemoryManager.delete_round ->
\* _delete_round_from_dir(timeline_dir), lines 412-414: the handler, on the
\* event loop, reads the lines of the day's timeline file (no file: nothing
\* to check); named is the history of the rounds a request has named
DeleteRead(round_num) ==
    /\ store.delete.pc = "idle"
    /\ store' = [store EXCEPT !.delete = [pc |-> "read", round_num |-> round_num,
                                          lines |-> timeline,
                                          named |-> @.named \cup {round_num}]]
    /\ UNCHANGED <<runstate, stop_event, thread, workers, evloop, last_error,
                   timeline, notebook, ended, appended, sandbox, hub, env>>

\* lines 416-438: the lines of other rounds are kept; when a line was
\* dropped the file is rewritten with the kept lines, or removed when none
\* is kept; an OSError leaves the file. Then the same for the notebook
\* (delete_round lines 462-464)
DeleteRewrite ==
    /\ store.delete.pc = "read"
    /\ LET d == store.delete
           new_lines == SelectSeq(d.lines, LAMBDA entry : entry.round /= d.round_num)
           found == new_lines /= d.lines
       IN /\ \E ok \in env.disk :
                timeline' = IF found /\ ok THEN new_lines ELSE timeline
          /\ notebook' = notebook \ {d.round_num}
          /\ store' = [store EXCEPT !.delete = [d EXCEPT !.pc = "idle", !.lines = <<>>]]
    /\ UNCHANGED <<runstate, stop_event, thread, workers, evloop, last_error,
                   ended, appended, sandbox, hub, env>>

\* memory.py:291-295 and loop.py:391: the loop goes on to round_end whether
\* the append succeeded or its OSError was swallowed
AfterAppend(w, tl_ok) == [w EXCEPT !.pc = "round_end"]

\* lines 374-389: auto-note when the round saved none, timeline append.
\* notebook_saved says that the round wrote its own note (memory.py:8), so a
\* note of this round is on disk unless the round saved none and the
\* automatic write failed
Record(t) ==
    /\ workers[t].pc = "round_ret"
    /\ LET w == workers[t] IN
       \E saved \in BOOLEAN, nb_ok \in env.disk, tl_ok \in env.disk :
          /\ IF saved THEN nb_ok /\ write_notebook(w.round_num, TRUE)
                      ELSE write_notebook(w.round_num, nb_ok)
          /\ append_timeline(w.round_num, w.result.tools_used, tl_ok)
          /\ ended' = ended \cup {w.round_num}
          /\ appended' = IF tl_ok THEN appended \cup {w.round_num} ELSE appended
          /\ SetW(t, AfterAppend(w, tl_ok))
    /\ UNCHANGED <<runstate, stop_event, thread, evloop, last_error, sandbox, store, hub, env>>

\* a loop that turns a round with an error result into the error state
round_end_state_error(result) == IF result.error THEN "error" ELSE "waiting"

\* lines 394-400: the state reported after a round, whatever its result
round_end_state(result) == "waiting"

\* lines 391-403: round_end, callback, advance the counter; `result` stays
\* bound until run_round returns the next one
RoundEnd(t) ==
    /\ workers[t].pc = "round_end"
    /\ LET w == workers[t] IN
       /\ state_callback([state |-> round_end_state(w.result), round |-> w.round_num,
                          tools |-> w.result.tools_used, summary |-> "summary"])
       /\ SetW(t, [w EXCEPT !.pc = "sleep_check", !.round_num = @ + 1,
                            !.messages = <<>>, !.executed = {}, !.total = 0,
                            !.next_id = 1, !.tool_turns = 0, !.llm_calls = 0, !.kinds = <<>>, !.trace = <<>>,
                            !.snap_done = FALSE])
       /\ hub' = [hub EXCEPT !.log = Append(@, RoundEvent("completed", w.round_num))]
    /\ UNCHANGED <<stop_event, thread, evloop, last_error,
                   timeline, notebook, ended, appended, sandbox, store, env>>

\* lines 405-411: wait for the interval, or leave the loop
SleepCheck(t) ==
    /\ workers[t].pc = "sleep_check"
    /\ SetW(t, [workers[t] EXCEPT !.pc =
            IF workers[t].interval > 0 /\ ~stop_event THEN "sleep"
            ELSE IF stop_event THEN "shutdown"
            ELSE "while"])
    /\ UNCHANGED <<runstate, stop_event, thread, evloop, last_error, files>>

\* line 409: stop_event.wait(timeout=interval) returns, set or timed out
Sleep(t) ==
    /\ workers[t].pc = "sleep"
    /\ SetW(t, [workers[t] EXCEPT !.pc = "while"])
    /\ UNCHANGED <<runstate, stop_event, thread, evloop, last_error, files>>

\* lines 413-416: clean shutdown
Shutdown(t) ==
    /\ workers[t].pc = "shutdown"
    /\ state_callback([state |-> "idle", round |-> workers[t].round_num - 1])
    /\ SetW(t, [workers[t] EXCEPT !.pc = "finally"])
    /\ store' = [store EXCEPT !.log = "stop"]
    /\ UNCHANGED <<stop_event, thread, evloop, last_error,
                   timeline, notebook, ended, appended, sandbox, hub, env>>

\* ---- manager.py: _run_activator ------------------------------------------
\* lines 144-147: except Exception
Except(t) ==
    /\ workers[t].pc = "except"
    /\ state' = "error"
    /\ last_round_summary' = "fatal"
    /\ SetW(t, [workers[t] EXCEPT !.pc = "finally"])
    /\ UNCHANGED <<current_round, total_rounds, last_round_tools,
                   stop_event, thread, evloop, last_error, files>>

\* lines 148-161: finally with its status event, then the thread ends
Finally(t) ==
    /\ workers[t].pc = "finally"
    /\ state' = IF state /= "error" THEN "idle" ELSE state
    /\ SetW(t, [workers[t] EXCEPT !.pc = "dead", !.messages = <<>>, !.pending = <<>>,
                                  !.sent = IF state /= "error" THEN "idle" ELSE state,
                                  !.snap_done = FALSE,
                                  !.executed = {}, !.total = 0, !.next_id = 1,
                                  !.tool_turns = 0, !.llm_calls = 0, !.kinds = <<>>, !.trace = <<>>,
                                  !.result = NoResult])
    /\ UNCHANGED <<current_round, total_rounds, last_round_tools, last_round_summary,
                   stop_event, thread, evloop, last_error, files>>

Worker(t) ==
    \/ LoopInit(t)
    \/ WhileCheck(t)
    \/ RoundStart(t)
    \/ LLMCall(t)
    \/ ToolCall(t)
    \/ Record(t)
    \/ RoundEnd(t)
    \/ SleepCheck(t)
    \/ Sleep(t)
    \/ Shutdown(t)
    \/ Except(t)
    \/ Finally(t)

\* ---- specification -------------------------------------------------------
Init ==
    /\ state = "idle"
    /\ current_round = 0
    /\ total_rounds = 0
    /\ last_round_tools = 0
    /\ last_round_summary = ""
    /\ stop_event = FALSE
    /\ thread = 0
    /\ workers = [t \in Threads |-> FreshWorker]
    /\ evpc = "none"
    /\ ev_running = FALSE
    /\ pending_restart = 0
    /\ last_error = "none"
    /\ timeline = <<>>
    /\ notebook = {}
    /\ ended = {}
    /\ appended = {}
    /\ sandbox = NoSandbox
    /\ store = NoStore
    /\ hub = NoHub
    /\ env = [batch |-> 1, kinds |-> {"ok", "nondict"}, turns |-> 1, disk |-> BOOLEAN]

Next ==
    \/ Start
    \/ Stop
    \/ StopWrite
    \/ Restart
    \/ RestartResume
    \/ \E t \in Threads : Worker(t)

Spec == Init /\ [][Next]_vars

\* ---- stopping, with data files that take every write ---------------------
InitStop ==
    /\ state = "idle"
    /\ current_round = 0
    /\ total_rounds = 0
    /\ last_round_tools = 0
    /\ last_round_summary = ""
    /\ stop_event = FALSE
    /\ thread = 0
    /\ workers = [t \in Threads |-> FreshWorker]
    /\ evpc = "none"
    /\ ev_running = FALSE
    /\ pending_restart = 0
    /\ last_error = "none"
    /\ timeline = <<>>
    /\ notebook = {}
    /\ ended = {}
    /\ appended = {}
    /\ sandbox = NoSandbox
    /\ store = NoStore
    /\ hub = NoHub
    /\ env = [batch |-> 1, kinds |-> {"ok", "nondict"}, turns |-> 1, disk |-> {TRUE}]

\* the worker thread and a coroutine of the event loop keep running
FairSpec ==
    /\ InitStop
    /\ [][Next]_vars
    /\ \A t \in Threads : WF_vars(Worker(t))
    /\ WF_vars(StopWrite)

\* ---- the loop with the snapshot update of the memory pipeline -------------

\* the loop's call of update_snapshot after the timeline append; the
\* SnapshotUpdateError leaves run_activation_loop. The model that succeeds
\* saves the snapshot stamped with the round (the sections are left as they
\* are here); a model that fails may have saved it before it failed.
SnapshotUpdate(t) ==
    /\ workers[t].pc = "round_end"
    /\ ~workers[t].snap_done
    /\ \E primary_ok \in BOOLEAN, has_fallback \in BOOLEAN, fallback_ok \in BOOLEAN :
          IF ~primary_ok /\ (has_fallback => ~fallback_ok)
          THEN /\ SetW(t, [workers[t] EXCEPT !.pc = "except", !.crashed = TRUE,
                                             !.snap_failed = TRUE])
               /\ \E saved \in BOOLEAN :
                     store' = IF saved
                              THEN [store EXCEPT
                                       !.snapshot = Stamp(@, workers[t].round_num)]
                              ELSE store
          ELSE /\ SetW(t, [workers[t] EXCEPT !.snap_done = TRUE])
               /\ store' = [store EXCEPT !.snapshot = Stamp(@, workers[t].round_num)]
    /\ UNCHANGED <<runstate, stop_event, thread, evloop, last_error,
                   timeline, notebook, ended, appended, sandbox, hub, env>>

WorkerSnap(t) ==
    \/ LoopInit(t)
    \/ WhileCheck(t)
    \/ RoundStart(t)
    \/ LLMCall(t)
    \/ ToolCall(t)
    \/ Record(t)
    \/ SnapshotUpdate(t)
    \/ (workers[t].snap_done /\ RoundEnd(t))
    \/ SleepCheck(t)
    \/ Sleep(t)
    \/ Shutdown(t)
    \/ Except(t)
    \/ Finally(t)

NextSnap ==
    \/ Start
    \/ Stop
    \/ StopWrite
    \/ Restart
    \/ RestartResume
    \/ \E t \in Threads : WorkerSnap(t)

SpecSnap == InitStop /\ [][NextSnap]_vars

\* ---- one run of the loop, with data files whose writes can fail ----------
\* the state right after a first start(config) on a fresh installation
InitLoop ==
    /\ state = "running"
    /\ current_round = 0
    /\ total_rounds = 0
    /\ last_round_tools = 0
    /\ last_round_summary = ""
    /\ stop_event = FALSE
    /\ thread = 1
    /\ \E interval \in Intervals :
          workers = [t \in Threads |->
                       IF t = 1 THEN [FreshWorker EXCEPT !.pc = "init", !.interval = interval]
                       ELSE FreshWorker]
    /\ evpc = "none"
    /\ ev_running = FALSE
    /\ pending_restart = 0
    /\ last_error = "none"
    /\ timeline = <<>>
    /\ notebook = {}
    /\ ended = {}
    /\ appended = {}
    /\ sandbox = NoSandbox
    /\ store = NoStore
    /\ hub = NoHub
    /\ env = [batch |-> 1, kinds |-> {"ok", "nondict"}, turns |-> 1, disk |-> BOOLEAN]

NextLoop ==
    \/ Stop
    \/ StopWrite
    \/ Worker(1)

\* the worker thread and a running stop() coroutine keep running
FairLoop ==
    /\ InitLoop
    /\ [][NextLoop]_vars
    /\ WF_vars(Worker(1))
    /\ WF_vars(StopWrite)

\* one run of the loop with the snapshot update, data files whose writes can
\* fail
NextPipeline ==
    \/ Stop
    \/ StopWrite
    \/ WorkerSnap(1)

SpecPipeline == InitLoop /\ [][NextPipeline]_vars

\* ---- the file tools on a machine that holds the project root -------------
\* the runtime's own file is in the project root; the agent has placed its
\* symbolic link, or none
InitTools ==
    /\ state = "running"
    /\ current_round = 1
    /\ total_rounds = 0
    /\ last_round_tools = 0
    /\ last_round_summary = ""
    /\ stop_event = FALSE
    /\ thread = 0
    /\ workers = [t \in Threads |-> FreshWorker]
    /\ evpc = "none"
    /\ ev_running = FALSE
    /\ pending_restart = 0
    /\ last_error = "none"
    /\ timeline = <<>>
    /\ notebook = {}
    /\ ended = {}
    /\ appended = {}
    /\ \E set \in BOOLEAN : \E target \in LinkTargets :
          sandbox = [NoSandbox EXCEPT
                        !.link = IF set THEN [set |-> TRUE, target |-> target]
                                 ELSE [set |-> FALSE, target |-> <<>>],
                        !.files = {<<"opt", "app", "f">>}]
    /\ store = NoStore
    /\ hub = NoHub
    /\ env = [batch |-> 1, kinds |-> {"ok"}, turns |-> 1, disk |-> {TRUE}]

NextTools ==
    \/ \E path \in ToolPaths : ReadFile(path)
    \/ \E path \in ToolPaths : WriteFile(path)
    \/ \E path \in ToolPaths : EditFile(path)

SpecTools == InitTools /\ [][NextTools]_vars

\* ---- shell_execute on that machine ---------------------------------------
\* as InitTools; host_env holds the server port, or does not; the LLM has
\* chosen a command
InitShell ==
    /\ state = "running"
    /\ current_round = 1
    /\ total_rounds = 0
    /\ last_round_tools = 0
    /\ last_round_summary = ""
    /\ stop_event = FALSE
    /\ thread = 0
    /\ workers = [t \in Threads |-> FreshWorker]
    /\ evpc = "none"
    /\ ev_running = FALSE
    /\ pending_restart = 0
    /\ last_error = "none"
    /\ timeline = <<>>
    /\ notebook = {}
    /\ ended = {}
    /\ appended = {}
    /\ \E set \in BOOLEAN : \E target \in LinkTargets : \E port \in {0, ManagementPort} :
       \E command \in Commands : \E raw \in Outputs :
          sandbox = [NoSandbox EXCEPT
                        !.link = IF set THEN [set |-> TRUE, target |-> target]
                                 ELSE [set |-> FALSE, target |-> <<>>],
                        !.files = {<<"opt", "app", "f">>},
                        !.server_port = port,
                        !.shell.command = command,
                        !.shell.raw = raw]
    /\ store = NoStore
    /\ hub = NoHub
    /\ env = [batch |-> 1, kinds |-> {"ok"}, turns |-> 1, disk |-> {TRUE}]

SpecShell == InitShell /\ [][ShellExecute]_vars

\* ---- _merge_delta on any snapshot and delta ------------------------------
\* a snapshot of round 1 is on disk and the LLM has answered with a delta for
\* round 2
InitMerge ==
    /\ state = "running"
    /\ current_round = 2
    /\ total_rounds = 1
    /\ last_round_tools = 0
    /\ last_round_summary = ""
    /\ stop_event = FALSE
    /\ thread = 0
    /\ workers = [t \in Threads |-> FreshWorker]
    /\ evpc = "none"
    /\ ev_running = FALSE
    /\ pending_restart = 0
    /\ last_error = "none"
    /\ timeline = <<>>
    /\ notebook = {}
    /\ ended = {}
    /\ appended = {}
    /\ sandbox = NoSandbox
    /\ \E services \in Lists(MaxEntries) : \E issues \in Lists(MaxEntries) :
       \E delta \in Deltas :
          store = [NoStore EXCEPT
                      !.merge.old = [meta |-> [round |-> 1, last_updated |-> "before"],
                                     services |-> services, issues |-> issues,
                                     environment |-> "old"],
                      !.merge.delta = delta,
                      !.merge.round_num = 2]
    /\ hub = NoHub
    /\ env = [batch |-> 1, kinds |-> {"ok"}, turns |-> 1, disk |-> {TRUE}]

SpecMerge == InitMerge /\ [][MergeDelta]_vars

\* ---- one call of update_snapshot, with a reader of the file ---------------
\* the round's timeline entry is appended; snapshot.yaml is missing or holds
\* the snapshot of the round before; one model or two are configured
InitUpdate ==
    /\ state = "running"
    /\ current_round = 2
    /\ total_rounds = 1
    /\ last_round_tools = 0
    /\ last_round_summary = ""
    /\ stop_event = FALSE
    /\ thread = 0
    /\ workers = [t \in Threads |-> FreshWorker]
    /\ evpc = "none"
    /\ ev_running = FALSE
    /\ pending_restart = 0
    /\ last_error = "none"
    /\ timeline = <<>>
    /\ notebook = {}
    /\ ended = {}
    /\ appended = {}
    /\ sandbox = NoSandbox
    /\ \E file \in {"none", "old"} : \E models \in {1, 2} :
          store = [NoStore EXCEPT !.file = file, !.pre = file,
                                  !.update.pc = "begin", !.update.models = models]
    /\ hub = NoHub
    /\ env = [batch |-> 1, kinds |-> {"ok"}, turns |-> 1, disk |-> {TRUE}]

NextUpdate ==
    \/ UpdateBegin
    \/ UpdateCompletion
    \/ SaveOpen
    \/ SaveDump
    \/ AppendFeed
    \/ UpdateLog
    \/ UpdateExcept
    \/ GetSnapshot

SpecUpdate == InitUpdate /\ [][NextUpdate]_vars

\* ---- the event stream of one round and its subscribers --------------------
\* one subscriber is connected when the round's events begin
InitHub ==
    /\ state = "running"
    /\ current_round = 2
    /\ total_rounds = 1
    /\ last_round_tools = 0
    /\ last_round_summary = ""
    /\ stop_event = FALSE
    /\ thread = 0
    /\ workers = [t \in Threads |-> FreshWorker]
    /\ evpc = "none"
    /\ ev_running = FALSE
    /\ pending_restart = 0
    /\ last_error = "none"
    /\ timeline = <<>>
    /\ notebook = {}
    /\ ended = {}
    /\ appended = {}
    /\ sandbox = NoSandbox
    /\ store = NoStore
    /\ \E first \in Sockets :
          hub = [NoHub EXCEPT !.active_connections = {first}, !.status[first] = "open"]
    /\ env = [batch |-> 1, kinds |-> {"ok"}, turns |-> 1, disk |-> {TRUE}]

NextHub ==
    \/ Broadcast
    \/ BroadcastReturn
    \/ BroadcastTimeout
    \/ \E i \in DOMAIN hub.tasks : SendText(i)
    \/ \E ws \in Sockets : Connect(ws)
    \/ \E ws \in Sockets : Break(ws)
    \/ \E ws \in Sockets : Disconnect(ws)

SpecHub == InitHub /\ [][NextHub]_vars

\* ---- one run of the loop with an operator who sends inspirations ---------
InitInspire ==
    /\ state = "running"
    /\ current_round = 0
    /\ total_rounds = 0
    /\ last_round_tools = 0
    /\ last_round_summary = ""
    /\ stop_event = FALSE
    /\ thread = 1
    /\ \E interval \in Intervals :
          workers = [t \in Threads |->
                       IF t = 1 THEN [FreshWorker EXCEPT !.pc = "init", !.interval = interval]
                       ELSE FreshWorker]
    /\ evpc = "none"
    /\ ev_running = FALSE
    /\ pending_restart = 0
    /\ last_error = "none"
    /\ timeline = <<>>
    /\ notebook = {}
    /\ ended = {}
    /\ appended = {}
    /\ sandbox = NoSandbox
    /\ store = NoStore
    /\ hub = NoHub
    /\ env = [batch |-> 1, kinds |-> {"ok", "nondict"}, turns |-> 1, disk |-> BOOLEAN]

NextInspire ==
    \/ Stop
    \/ StopWrite
    \/ Worker(1)
    \/ InspirationRemove(1)
    \/ WriteInspiration

SpecInspire == InitInspire /\ [][NextInspire]_vars

\* ---- one round under an LLM that batches tool calls ----------------------
\* the state in which worker 1 of a fresh installation is about to begin round 1
InitRound ==
    /\ state = "running"
    /\ current_round = 1
    /\ total_rounds = 0
    /\ last_round_tools = 0
    /\ last_round_summary = ""
    /\ stop_event = FALSE
    /\ thread = 1
    /\ workers = [t \in Threads |->
                    IF t = 1 THEN [FreshWorker EXCEPT !.pc = "round_start", !.interval = 60,
                                                      !.round_num = 1]
                    ELSE FreshWorker]
    /\ evpc = "none"
    /\ ev_running = FALSE
    /\ pending_restart = 0
    /\ last_error = "none"
    /\ timeline = <<>>
    /\ notebook = {}
    /\ ended = {}
    /\ appended = {}
    /\ sandbox = NoSandbox
    /\ store = NoStore
    /\ hub = NoHub
    /\ env = [batch |-> MaxCallsPerTurn, kinds |-> {"ok", "bad", "nondict"}, turns |-> HardLimit + 1,
               disk |-> BOOLEAN]

NextRound ==
    \/ RoundStart(1)
    \/ LLMCall(1)
    \/ ToolCall(1)
    \/ Record(1)
    \/ Except(1)
    \/ Finally(1)

SpecRound == InitRound /\ [][NextRound]_vars

\* the round's thread keeps running: every LLM stream and tool call returns
FairRound == SpecRound /\ WF_vars(NextRound)

\* ---- round 4 of a run, with an operator who deletes rounds -----------------
\* the day's timeline file holds the entries of rounds 1, 2 and 3
InitDelete ==
    /\ state = "running"
    /\ current_round = 4
    /\ total_rounds = 3
    /\ last_round_tools = 0
    /\ last_round_summary = "summary"
    /\ stop_event = FALSE
    /\ thread = 1
    /\ workers = [t \in Threads |->
                    IF t = 1 THEN [FreshWorker EXCEPT !.pc = "round_start", !.interval = 60,
                                                      !.round_num = 4]
                    ELSE FreshWorker]
    /\ evpc = "none"
    /\ ev_running = FALSE
    /\ pending_restart = 0
    /\ last_error = "none"
    /\ timeline = [r \in 1..3 |-> [round |-> r, tools_used |-> 0]]
    /\ notebook = 1..3
    /\ ended = 1..3
    /\ appended = 1..3
    /\ sandbox = NoSandbox
    /\ store = NoStore
    /\ hub = NoHub
    /\ env = [batch |-> 1, kinds |-> {"ok", "nondict"}, turns |-> 2, disk |-> BOOLEAN]

SpecDelete ==
    InitDelete /\ [][\/ NextRound
                     \/ \E round_num \in 1..MaxRound : DeleteRead(round_num)
                     \/ DeleteRewrite]_vars

\* ==========================================================================
\* Properties
\* ==========================================================================
InRound(t) == workers[t].pc \in {"llm", "tools"}

\* C1: at most one worker thread runs the activation loop at any time, so at
\* most one round is active, whatever start, stop and restart requests arrive
C1_OneWorker ==
    /\ Cardinality({t \in Threads : Alive(t)}) <= 1
    /\ Cardinality({t \in Threads : InRound(t)}) <= 1

\* a second worker is inside a round after the first one has ended and a
\* stop and a new start went through
C1_Witness ==
    /\ thread = 2
    /\ InRound(2)
    /\ workers[1].pc = "dead"

\* C2: start(config) called while the state is running, waiting or stopping
\* fails with the RuntimeError and changes neither RunState, the stop event
\* nor the worker
C2_StartRefused ==
    [][((Start \/ RestartResume) /\ state \in {"running", "waiting", "stopping"})
         => (/\ last_error' \in {"AlreadyRunning", "StillFinishing"}
             /\ UNCHANGED <<runstate, stop_event, thread, workers>>)]_vars

\* C3: a stop() that finds the state stopping while the worker is still
\* finishing its round leaves the state and the stop event as they were
C3_StopIdempotent ==
    [][(StopWrite /\ state = "stopping" /\ ThreadAlive)
         => (state' = state /\ stop_event' = stop_event)]_vars

EntriesOf(r) == {i \in 1..Len(timeline) : timeline[i].round = r}

C8_CallsPaired ==
    \A t \in Threads :
       workers[t].pc \in {"llm", "round_ret", "round_end"} =>
          LET msgs == workers[t].messages
              AnswersAfter(i, id) ==
                  {k \in (i + 1)..Len(msgs) : msgs[k].role = "tool" /\ msgs[k].id = id}
              CallsBefore(k, id) ==
                  {c \in (1..(k - 1)) \X (1..MaxCallsPerTurn) :
                      /\ msgs[c[1]].role = "assistant"
                      /\ c[2] <= Len(msgs[c[1]].calls)
                      /\ msgs[c[1]].calls[c[2]] = id}
          IN /\ \A i \in 1..Len(msgs) :
                   msgs[i].role = "assistant"
                     => \A j \in 1..Len(msgs[i].calls) :
                           Cardinality(AnswersAfter(i, msgs[i].calls[j])) = 1
             /\ \A k \in 1..Len(msgs) :
                   msgs[k].role = "tool" => Cardinality(CallsBefore(k, msgs[k].id)) = 1

\* the round returned from a turn whose calls ran past the hard limit
C8_Witness ==
    /\ workers[1].pc = "round_ret"
    /\ ~workers[1].result.error
    /\ workers[1].total > HardLimit

\* C9: on every return of run_round (no tool calls, hard limit, LLM or stream
\* error) tools_used of the result is the number of tool messages of the
\* round, and so is tools_used of the timeline entry appended for the round
C9_ToolsUsedCountsToolMessages ==
    \A t \in Threads :
       LET w == workers[t] IN
       /\ w.pc \in {"round_ret", "round_end"}
            => /\ w.result.set
               /\ w.result.tools_used = ToolCount(w.messages)
       /\ (/\ w.pc = "round_end"
           /\ timeline /= <<>>
           /\ timeline[Len(timeline)].round = w.round_num)
            => timeline[Len(timeline)].tools_used = ToolCount(w.messages)

\* a round that ended on an LLM error after tool calls has its entry
C9_Witness ==
    /\ workers[1].pc = "round_end"
    /\ workers[1].result.error
    /\ workers[1].result.tools_used >= 1
    /\ timeline /= <<>>
    /\ timeline[Len(timeline)].round = workers[1].round_num

\* tool messages before position i: the used count when call i was dispatched
UsedBefore(msgs, i) == Cardinality({k \in 1..(i - 1) : msgs[k].role = "tool"})

\* C10: a tool call dispatched when the used count is at least normal_limit
\* gets the budget-exhausted text and no real result (the text alone, or the
\* text in front of the argument-parse error), the executor is not invoked
\* for it, and it counts in tools_used
C10_ExhaustedInPlaceOfResult ==
    \A t \in Threads :
       LET w == workers[t]
           m == w.messages
       IN \A i \in 1..Len(m) :
             (m[i].role = "tool" /\ UsedBefore(m, i) >= NormalLimit)
               => /\ \/ /\ m[i].hint = NoText
                        /\ m[i].result = ExhaustedResult(UsedBefore(m, i))
                     \/ /\ m[i].hint = Text("exhausted", UsedBefore(m, i) + 1)
                        /\ m[i].result = Text("parse_error", 0)
                  /\ m[i].id \notin w.executed
                  /\ w.total >= UsedBefore(m, i) + 1
                  /\ w.pc = "round_ret" => w.result.tools_used >= UsedBefore(m, i) + 1

\* one assistant turn asked for more calls than the budget had left: the
\* calls within the budget were executed, the last one got the exhausted
\* text, and the round returned with tools_used = normal_limit + 1
C10_Witness ==
    LET w == workers[1]
        m == w.messages
    IN /\ w.pc = "round_ret"
       /\ w.result.tools_used = NormalLimit + 1
       /\ Cardinality(w.executed) = NormalLimit
       /\ \E i \in 1..Len(m) : \E k \in (i + 1)..Len(m) :
             /\ m[i].role = "assistant"
             /\ Len(m[i].calls) = (IF NormalLimit + 1 <= MaxCallsPerTurn THEN NormalLimit + 1
                                   ELSE MaxCallsPerTurn)
             /\ m[i].calls[1] \in w.executed
             /\ m[k].role = "tool"
             /\ m[k].id = m[i].calls[Len(m[i].calls)]
             /\ m[k].hint = NoText
             /\ m[k].result = ExhaustedResult(NormalLimit)

\* C11 as stated: a tool call with parseable arguments that is dispatched
\* when the used count is at least normal_limit and below normal_limit + 3
\* is still executed by the tool executor
C11_StillExecutedPastLimit ==
    \A t \in Threads :
       LET w == workers[t]
           m == w.messages
       IN \A i \in 1..Len(m) :
             (/\ m[i].role = "tool"
              /\ UsedBefore(m, i) >= NormalLimit
              /\ UsedBefore(m, i) < HardLimit
              /\ m[i].result /= Text("parse_error", 0))
               => m[i].id \in w.executed

\* C11 amended: once the used count has reached normal_limit no tool call is
\* executed any more (the executor runs at most normal_limit times in a
\* round); the calls are answered and counted, the LLM is called again while
\* the count is below normal_limit + 3, and a round that returns after a
\* turn with tool calls has a count of at least normal_limit + 3
C11_NoExecutionPastLimit ==
    \A t \in Threads :
       LET w == workers[t]
           m == w.messages
       IN /\ Cardinality(w.executed) <= NormalLimit
          /\ \A i \in 1..Len(m) :
                (m[i].role = "tool" /\ m[i].id \in w.executed)
                   => UsedBefore(m, i) < NormalLimit
          /\ (/\ w.pc = "round_ret"
              /\ ~w.result.error
              /\ m /= <<>>
              /\ m[Len(m)].role = "tool")
               => w.total >= HardLimit

\* the LLM is about to be called again after a call that was answered with
\* the exhausted text: the count is past normal_limit and below the hard limit
C11_Witness ==
    LET w == workers[1]
        m == w.messages
    IN /\ w.pc = "llm"
       /\ w.total > NormalLimit
       /\ w.total < HardLimit
       /\ Cardinality(w.executed) = NormalLimit
       /\ m[Len(m)].role = "tool"
       /\ m[Len(m)].hint = NoText
       /\ m[Len(m)].id \notin w.executed

\* C12: the tool loop of a round terminates when every LLM stream and tool
\* call returns: each iteration that hands control back to the LLM has raised
\* the used count by at least one, no LLM call is made once the count is at
\* least normal_limit + 3, a round makes at most normal_limit + 3 LLM calls,
\* and a round that has called the LLM returns unless a call raised
C12_ToolLoopTerminates ==
    /\ [](\A t \in Threads :
            /\ workers[t].pc = "llm"
                 => /\ workers[t].total < HardLimit
                    /\ workers[t].total >= workers[t].llm_calls
            /\ workers[t].llm_calls <= HardLimit)
    /\ (workers[1].pc = "llm")
          ~> (workers[1].pc \in {"round_ret", "round_end"} \/ workers[1].crashed)

\* the round returned after as many LLM calls as the hard limit allows
C12_Witness ==
    /\ workers[1].pc = "round_ret"
    /\ ~workers[1].result.error
    /\ workers[1].llm_calls = HardLimit
    /\ workers[1].total >= HardLimit

\* the round of worker t has returned with an error result
ErrorRound(t) == workers[t].pc \in {"round_ret", "round_end"} /\ workers[t].result.error

C14_ToolFailuresStayInBand ==
    \A t \in Threads :
       /\ ~workers[t].crashed
       /\ workers[t].pc /= "except"
       /\ workers[t].pc \in {"llm", "round_ret", "round_end"}
            => \A id \in workers[t].executed :
                  \E i \in 1..Len(workers[t].messages) :
                     /\ workers[t].messages[i].role = "tool"
                     /\ workers[t].messages[i].id = id

\* C15: a tool call whose arguments neither json.loads nor the repair can
\* parse does not reach the executor; one parse-error tool message with the
\* call's id is appended, the used count rises by one, nothing is raised and
\* the for loop goes on with the next call of the turn
C15_ParseErrorIsAnswered ==
    [][\A t \in Threads :
          (/\ workers[t].pc = "tools"
           /\ Len(workers'[t].kinds) = Len(workers[t].kinds) + 1
           /\ workers'[t].kinds[Len(workers'[t].kinds)] = "bad")
            => LET w == workers[t]
                   id == Head(w.pending)
               IN /\ workers'[t].executed = w.executed
                  /\ workers'[t].messages =
                        Append(w.messages,
                               ToolMsg(id, budget_hint(w.total + 1, NormalLimit),
                                       Text("parse_error", 0)))
                  /\ workers'[t].total = w.total + 1
                  /\ ~workers'[t].crashed
                  /\ workers'[t].pending = Tail(w.pending)
                  /\ Tail(w.pending) /= <<>> => workers'[t].pc = "tools"]_vars

\* the first call of a turn had unparseable arguments and was answered with
\* the parse error; the second call of the same turn was then executed
C15_Witness ==
    LET w == workers[1] IN
    /\ Len(w.kinds) >= 2
    /\ w.kinds[1] = "bad"
    /\ w.kinds[2] = "ok"
    /\ Len(w.messages) >= 5
    /\ w.messages[3].role = "assistant"
    /\ Len(w.messages[3].calls) >= 2
    /\ w.messages[4] = ToolMsg(1, budget_hint(1, NormalLimit), Text("parse_error", 0))
    /\ w.messages[5].role = "tool"
    /\ w.messages[5].id = 2
    /\ w.executed = {2}
    /\ w.total = 2

\* C16: when the snapshot update of a round fails on every model tried, the
\* error leaves the loop, the state becomes error, that worker starts no
\* further round, and the status event sent when the thread ends says error
C16_SnapshotFailureIsFatal ==
    /\ [][\A t \in Threads :
            /\ (~workers[t].snap_failed /\ workers'[t].snap_failed)
                 => workers'[t].pc = "except"
            /\ (workers[t].snap_failed /\ workers[t].pc = "except"
                  /\ workers'[t].pc /= "except")
                 => state' = "error"]_vars
    /\ [](\A t \in Threads :
            workers[t].snap_failed
              => /\ workers[t].pc \in {"except", "finally", "dead"}
                 /\ workers[t].pc = "dead" => workers[t].sent = "error")

\* the round of worker t has passed its timeline append and has no entry
AppendFailed(t) ==
    /\ workers[t].pc = "round_end"
    /\ \A i \in 1..Len(timeline) : timeline[i].round /= workers[t].round_num

C18_ProjectRootIsCloaked ==
    LET c == sandbox.last IN
    /\ (c.tool = "read_file" /\ InProject(realpath(c.path, <<>>)))
         => c.result = NotFound(c.path)
    /\ (c.tool \in {"write_file", "edit_file"} /\ InProject(realpath(c.path, <<>>)))
         => c.result = Denied(c.path)
    /\ \A real \in sandbox.touched : ~InProject(real)

\* some absolute path token of the command names the project root or a file
\* inside it
NamesProject(command) ==
    LET paths == extract_command_paths(command) IN
    \E i \in 1..Len(paths) : InProject(realpath(paths[i], <<>>))

\* C19: a command with an absolute path token whose real path is the project
\* root or inside it is not run and is answered with the no-such-file text;
\* a command that refers to the management port on localhost, 127.0.0.1 or
\* 0.0.0.0 is not run and is answered with the connection-refused text (the
\* no-such-file text when it also names the project root)
C19_CloakedCommandNotRun ==
    LET c == sandbox.shell IN
    c.called =>
       /\ NamesProject(c.command)
            => ~c.ran /\ c.result.kind = "no_such_file"
       /\ ((\E i \in 1..Len(c.command) :
               /\ c.command[i].host \in {"localhost", "127.0.0.1", "0.0.0.0"}
               /\ c.command[i].port = ManagementPort
               /\ sandbox.server_port = ManagementPort)
           /\ ~NamesProject(c.command))
            => ~c.ran /\ c.result = ConnectionRefused

\* C20: the result of an executed command is its output without the lines
\* that, joined to an absolute path token of the command, give a path inside
\* the project root; every other line is there, in the original order
C20_ExposingLinesAbsentOthersStay ==
    LET c == sandbox.shell
        paths == extract_command_paths(c.command)
        Exposes(line) ==
            \E x \in Candidates(line) : \E i \in 1..Len(paths) :
               InProject(realpath(join(paths[i], x.name, x.abs), <<>>))
    IN
    (c.called /\ c.ran) =>
       c.result.lines = SelectSeq(c.raw, LAMBDA line : ~Exposes(line))

\* C21: after a merge no entry of issues has the status resolved
C21_NoResolvedIssueAfterMerge ==
    LET m == store.merge IN
    m.done => \A i \in 1..Len(m.merged.issues) : m.merged.issues[i].status /= "resolved"

\* C22: a delta with no_changes gives a snapshot whose sections are those of
\* the input, and whose meta block carries the round of the merge, whatever
\* blocks the delta carries
C22_NoChangesKeepsSections ==
    LET m == store.merge IN
    (m.done /\ m.delta.no_changes) =>
       /\ m.merged.services = m.old.services
       /\ m.merged.issues = m.old.issues
       /\ m.merged.environment = m.old.environment
       /\ m.merged.meta = [round |-> m.round_num, last_updated |-> "now"]

\* a no_changes delta whose add, update and remove blocks would each change
\* the snapshot has been merged
C22_Witness ==
    LET m == store.merge IN
    /\ m.done
    /\ m.delta.no_changes
    /\ m.old[m.delta.section] /= <<>>
    /\ \E i \in 1..Len(m.delta.add) : m.delta.add[i].key \notin KeysOf(m.old[m.delta.section])
    /\ \E i \in 1..Len(m.delta.remove) : m.delta.remove[i] \in KeysOf(m.old[m.delta.section])
    /\ \E i \in 1..Len(m.delta.update) : \E j \in 1..Len(m.old[m.delta.section]) :
          /\ m.delta.update[i].key = m.old[m.delta.section][j].key
          /\ m.delta.update[i] /= m.old[m.delta.section][j]
    /\ m.delta.environment /= "none"

UniqueKeys(entries) ==
    \A i, j \in 1..Len(entries) : entries[i].key = entries[j].key => i = j

\* C23: after the add block the section is the section before, followed by
\* the entries of the block at the positions with a new key, in their order;
\* a section with unique keys has unique keys after the add block and after
\* the merge
C23_AddAppendsNewKeysOnly ==
    LET m == store.merge
        before == m.old[m.delta.section]
        after == m.after_add[m.delta.section]
        kept == {i \in 1..Len(m.delta.add) :
                    /\ m.delta.add[i].key \notin KeysOf(before)
                    /\ \A j \in 1..(i - 1) : m.delta.add[j].key /= m.delta.add[i].key}
    IN
    (m.done /\ ~m.delta.no_changes) =>
       /\ Len(after) = Len(before) + Cardinality(kept)
       /\ SubSeq(after, 1, Len(before)) = before
       /\ \A i \in kept :
             after[Len(before) + Cardinality({j \in kept : j <= i})] = m.delta.add[i]
       /\ \A sec \in Sections \ {m.delta.section} : m.after_add[sec] = m.old[sec]
       /\ UniqueKeys(before) => UniqueKeys(after) /\ UniqueKeys(m.merged[m.delta.section])

\* an add block with an entry whose key is in the section, and two entries of
\* one new key of which the first was appended, has been merged
C23_Witness ==
    LET m == store.merge
        before == m.old[m.delta.section]
        after == m.after_add[m.delta.section]
    IN
    /\ m.done
    /\ ~m.delta.no_changes
    /\ before /= <<>>
    /\ UniqueKeys(before)
    /\ Len(m.delta.add) = 2
    /\ m.delta.add[1].key = m.delta.add[2].key
    /\ m.delta.add[1] /= m.delta.add[2]
    /\ m.delta.add[1].key \notin KeysOf(before)
    /\ after = Append(before, m.delta.add[1])

C25_ReaderSeesOldOrNew ==
    store.seen \in {"nothing", load_snapshot(store.pre, TRUE), "new"}

\* C26: one call of update_snapshot, the one of a round, writes snapshot.yaml
\* at most once and appends at most one post to the feed
C26_OneSaveOnePostPerRound ==
    /\ store.update.saves <= 1
    /\ store.update.posts <= 1
    /\ Len(store.feed) <= 1

\* a worker finishes the inspiration part of its round start in this step
ReadEnds(t) ==
    /\ workers[t].pc \in {"round_start", "insp_remove"}
    /\ workers'[t].pc = "llm"

StartedAt == {i \in DOMAIN hub.log : hub.log[i].event = "started"}

\* C29: between a round-started and the next round-started there is exactly
\* one round-completed and it is for the same round, so round N+1 starts
\* after round N completed
C29_RoundEventsAlternate ==
    \A i \in StartedAt : \A j \in StartedAt :
        (i < j /\ \A k \in StartedAt : ~(i < k /\ k < j))
            => /\ j = i + 2
               /\ hub.log[i + 1] = RoundEvent("completed", hub.log[i].round)


\* C28: a subscriber that stays connected has every loading, tool_call and
\* tool_result event of tool call N before any such event of tool call N+1
C28_CallEventsBeforeNextCall ==
    \A ws \in Sockets :
       (/\ hub.status[ws] = "open"
        /\ hub.joined[ws] = 0
        /\ ws \in hub.active_connections) =>
        \A k \in DOMAIN hub.received[ws] :
            LET later == hub.received[ws][k] IN
            \A e \in 1..later :
                (Waits(e) /\ Waits(later) /\ CallOf(e) < CallOf(later))
                    => \E m \in 1..(k - 1) : hub.received[ws][m] = e

\* C30: a subscriber whose send fails is out of the active set when that
\* broadcast ends and receives no later event, and a subscriber receives
\* only events broadcast after it connected
C30_FailedRemovedJoinedNoReplay ==
    /\ hub.left = {}
    /\ \A ws \in Sockets :
          hub.failed[ws] /= 0 => Len(hub.received[ws]) < hub.failed[ws]
    /\ \A ws \in Sockets : \A k \in DOMAIN hub.received[ws] :
          hub.received[ws][k] > hub.joined[ws]


\* C33: the control operations start, stop and restart, which run on the
\* HTTP event loop, write no field of RunState (state, current_round,
\* total_rounds, last_round_tools, last_round_summary)
C33_ControlNeverWritesRunState ==
    [][(Start \/ StopWrite \/ RestartResume) => UNCHANGED runstate]_vars

\* C38: from the state stopping the state goes to no value but idle or error
C38_StoppingUntilExit ==
    [][state = "stopping" => state' \in {"stopping", "idle", "error"}]_vars

\* C39: when the state is idle no worker thread is alive inside
\* run_activation_loop
C39_IdleMeansNoWorker ==
    state = "idle" =>
       \A t \in Threads : workers[t].pc \in {"unstarted", "dead", "except", "finally"}


\* C32 as stated: the startup of the loop sets current_round to 1 + the round
\* of the last timeline entry and writes nothing: timeline, notebook,
\* snapshot, feed, inspiration and log files are as before
C32_StartupWritesNothing ==
    [][\A t \in Threads :
          (workers[t].pc = "init" /\ workers'[t].pc = "while")
            => /\ current_round' = 1 + get_last_timeline_round
               /\ UNCHANGED <<timeline, notebook, store>>]_vars

\* C32 amended: the startup of the loop sets current_round to 1 + the highest
\* round in the timeline and the notebook files together, leaves timeline,
\* notebook, snapshot, feed and inspiration as they are, and writes to the
\* log file only, its [START] lines
C32_StartupWritesLogOnly ==
    [][\A t \in Threads :
          (workers[t].pc = "init" /\ workers'[t].pc = "while")
            => /\ current_round' =
                    1 + Max2(SetMax(notebook),
                             SetMax({timeline[i].round : i \in 1..Len(timeline)}))
               /\ UNCHANGED <<timeline, notebook>>
               /\ store' = [store EXCEPT !.log = "start"]]_vars

\* a second run has started after the first one ended its round and left
\* the loop without a fatal error, with a timeline entry on disk, and has
\* done no work yet
C32_Witness ==
    /\ thread = 2
    /\ workers[2].pc = "while"
    /\ workers[1].pc = "dead"
    /\ last_round_summary = "summary"
    /\ timeline /= <<>>
    /\ current_round = 1 + timeline[Len(timeline)].round
    /\ store.log = "start"


\* C34 as stated: a dispatched call that reaches the executor produces
\* loading, tool_call, the executor invocation, the tool message and
\* tool_result in this order: no tool_call event before its loading event
C34_LoadingBeforeToolCall ==
    \A t \in Threads :
       LET tr == workers[t].trace IN
       (\E i \in DOMAIN tr : tr[i] = "execute") =>
          tr = SubSeq(<<"loading", "tool_call", "execute", "message", "tool_result">>,
                      1, Len(tr))

\* C34 amended: a call that reaches the executor produces tool_call, loading,
\* the executor invocation, the tool message and tool_result in this order
\* (up to the executor when it raises); a call that is not executed produces
\* tool_call, the tool message and tool_result
C34_ToolCallBeforeLoading ==
    \A t \in Threads :
       LET tr == workers[t].trace IN
       /\ (\E i \in DOMAIN tr : tr[i] = "execute") =>
             /\ tr = SubSeq(<<"tool_call", "loading", "execute", "message", "tool_result">>,
                            1, Len(tr))
             /\ Len(tr) = 5 \/ workers[t].crashed
       /\ (tr /= <<>> /\ \A i \in DOMAIN tr : tr[i] /= "execute") =>
             tr = <<"tool_call", "message", "tool_result">>

\* an executed call has returned and its tool_result event is out
C34_Witness ==
    /\ workers[1].pc \in {"llm", "tools"}
    /\ workers[1].executed /= {}
    /\ Len(workers[1].trace) = 5
    /\ workers[1].trace[5] = "tool_result"


\* C36: a broadcast that has ended has reached every subscriber that was in
\* the active set from before the broadcast began until now and whose
\* connection is open, whatever the other subscribers and broadcasts did
\* meanwhile
C36_BroadcastReachesStayers ==
    \A ws \in Sockets :
       (/\ hub.status[ws] = "open"
        /\ ws \in hub.active_connections) =>
        \A e \in (hub.joined[ws] + 1)..hub.emitted :
            (\A i \in DOMAIN hub.tasks : hub.tasks[i].event /= e)
                => \E k \in DOMAIN hub.received[ws] : hub.received[ws][k] = e


\* C37: an inspiration leaves the file only by being handed to a round or by
\* being overwritten by a newer one, and the remove of a round that read
\* an older inspiration leaves a newer one, written since, on the disk
C37_NewerInspirationKept ==
    /\ [][(store.inspiration /= 0 /\ store'.inspiration /= store.inspiration)
            => \/ store'.inspiration > store.inspiration
               \/ \E k \in DOMAIN store'.delivered :
                      store'.delivered[k].id = store.inspiration]_vars
    /\ [][\A t \in Threads :
            (/\ workers[t].pc = "insp_remove"
             /\ workers'[t].pc = "llm"
             /\ store.inspiration /= workers[t].insp)
                => store'.inspiration = store.inspiration]_vars


\* C40: when update_snapshot has raised SnapshotUpdateError, snapshot.yaml
\* and the feed are as they were when the update was called
C40_FailedUpdateLeavesNoWrite ==
    store.update.pc = "raised" =>
       /\ store.file = store.pre
       /\ store.feed = <<>>


\* C35: an entry the worker appended to the timeline is in the timeline
\* unless a delete request has named its round
C35_AppendedEntryNeverLost ==
    \A r \in appended :
       \/ r \in store.delete.named
       \/ \E i \in DOMAIN timeline : timeline[i].round = r


\* C31: the context built for a round holds, between the system message and
\* the wake-up user message, two history messages, a user and an assistant
\* message, for each of the up to three latest timeline entries: six history
\* messages for the three prior entries of rounds 7, 8 and 9
C31_ReplayAsConversation ==
    [][\A t \in Threads :
          (workers[t].pc = "round_start" /\ workers'[t].pc \in {"insp_remove", "llm"})
            => LET m == workers'[t].messages
                   k == IF Len(timeline) < 3 THEN Len(timeline) ELSE 3
               IN /\ Len(m) = 1 + 2 * k + 1
                  /\ m[1].role = "system"
                  /\ \A i \in 1..k : m[2 * i].role = "user" /\ m[2 * i + 1].role = "assistant"
                  /\ m[Len(m)].role = "user"]_vars

====
